---- MODULE Spec2Model ----
(***************************************************************************)
(* State-machine model of main-flod.py: the six-stage, K-fold semi-        *)
(* supervised training driver (main), its epoch loop (train), the          *)
(* checkpoint reload (load_pretrained_model) and the contrastive weight    *)
(* schedule (get_dynamic_weight).                                          *)
(*                                                                         *)
(* Numbers.  Contrastive weights are exact rationals [num, den] in lowest  *)
(* terms.  Network parameters are fixed-point integers; the EMA update     *)
(* rounds to the nearest unit, as floating point rounds to the nearest     *)
(* representable value.                                                    *)
(*                                                                         *)
(* Objects.  A network is an index into heap; main's variables model and   *)
(* teacher_model hold such indices, torch.load appends a new object.       *)
(***************************************************************************)
EXTENDS Integers, Sequences, FiniteSets, TLC

VARIABLES
    pc,                 \* main's position
    fold,               \* index of the current fold of kfold.split
    args,               \* parse_args(): batch_size, ContrastiveWeights, save_interval
    labeled_dataset,    \* number of lines of labeled.txt
    unlabeled_dataset,  \* sequence of the sample ids of unlabeled.txt
    reliable_dataset,   \* sequence of sample ids, output of select_reliable
    remaining_dataset,  \* sequence of sample ids, output of select_reliable
    remaining_label_dataset, \* sequence of sample ids, output of Label
    heap,               \* sequence of network objects: each a parameter vector
    model,              \* main's/train's student reference
    teacher_model,      \* main's/train's teacher reference
    contrast,           \* the attribute module.contrast of each network object
    optimum,            \* the parameter vector the training data pulls the student to
    fs,                 \* checkpoint files: path -> saved parameter vector
    csv,                \* loss logs: <<step_name, fold>> -> sequence of rows
    call,               \* arguments of the running train invocation
    tpc,                \* train's position
    range_i,            \* next value of range(start_epochs, end_epochs)
    c_epochs,           \* train's epoch number
    batch,              \* number of batches of train_loader consumed in this epoch
    PatchCL_weight,     \* train's local: contrastive weight of the last step
    embd_queues,        \* train's local: class -> queue of embeddings
    student_emb_list,   \* train's local: class -> embeddings of the last step
    teacher_embedding_list, \* train's local: class -> embeddings of the last step
    exception,          \* the exception that ended the run, "" while none
    log,                \* history: the last operation, the weight of the last loss,
                        \* the optimizer steps and EMA updates so far, the student
                        \* after and the teacher before the last optimizer step,
                        \* the enqueues so far, the output mode of the last
                        \* supervised and validation forward passes, the warnings
                        \* printed
    wq,                 \* schedule harness: the arguments [epoch, end_epochs]
    wres                \* schedule harness: the value returned

vars == <<pc, fold, args, labeled_dataset, unlabeled_dataset, reliable_dataset,
          remaining_dataset, remaining_label_dataset, heap, model, teacher_model,
          contrast, optimum, fs, csv, call, tpc, range_i, c_epochs, batch,
          PatchCL_weight, embd_queues, student_emb_list, teacher_embedding_list,
          exception, log, wq, wres>>

mainVars == <<pc, fold, args, labeled_dataset, unlabeled_dataset, reliable_dataset,
              remaining_dataset, remaining_label_dataset>>
netVars == <<heap, model, teacher_model, contrast>>
queueVars == <<embd_queues, student_emb_list, teacher_embedding_list>>
trainVars == <<call, tpc, range_i, c_epochs, batch, PatchCL_weight, queueVars>>
harnessVars == <<wq, wres>>

----------------------------------------------------------------------------
(* Bounds of the model *)

MaxEndEpochs == 12      \* end_epochs of a train invocation checked on its own
MaxBatches == 2         \* batches of the train loader of such an invocation
MaxSaveInterval == 3    \* --save_interval values drawn
MaxEpochArg == 120      \* epoch arguments of the schedule harness
NParams == 2            \* parameters of a network
MaxBatchSize == 2       \* --batch_size values drawn
MaxUnlabeled == 5       \* lines of unlabeled.txt
LrStep == 1000          \* largest move of one parameter in one optimizer step
NumClasses == 2         \* classes of the colour map (num_classes)
QueueCapacity == 3      \* embeddings a class queue holds

(* Program constants *)

k_folds == 5
interval == 10
supervised_start_epoch == 0
supervised_end_epoch == 100
SSL_step1_start_epoch == 0
SSL_step1_end_epoch == 100
SSL_step2_start_epoch == 0
SSL_step2_end_epoch == 100
TeacherLag == 10

----------------------------------------------------------------------------
(* Rationals in lowest terms, den > 0 *)

RECURSIVE GCD(_, _)
GCD(a, b) == IF b = 0 THEN a ELSE GCD(b, a % b)

Abs(x) == IF x < 0 THEN -x ELSE x

Rat(n, d) ==
    LET g == GCD(Abs(n), Abs(d))
        s == IF d < 0 THEN -1 ELSE 1
    IN  [num |-> s * (n \div g), den |-> s * (d \div g)]

RatAdd(a, b) == Rat(a.num * b.den + b.num * a.den, a.den * b.den)
RatSub(a, b) == Rat(a.num * b.den - b.num * a.den, a.den * b.den)
RatScale(k, a) == Rat(k * a.num, a.den)
RatDivInt(a, k) == Rat(a.num, a.den * k)
RatLeq(a, b) == a.num * b.den <= b.num * a.den

NoWeight == [num |-> 0, den |-> 0]      \* a local not assigned yet

----------------------------------------------------------------------------
(* get_dynamic_weight: the value returned, or the exception raised *)

start_weight == Rat(1, 10)
max_weight == Rat(1, 1)

Returned(w) == [exc |-> "", val |-> w]
Raised(e) == [exc |-> e, val |-> NoWeight]

get_dynamic_weight_linear(epoch, end_epochs) ==
    LET num_intervals == end_epochs \div interval
    IN  IF num_intervals = 0 THEN Raised("ZeroDivisionError")
        ELSE Returned(RatAdd(start_weight,
                 RatDivInt(RatScale(epoch, RatSub(max_weight, start_weight)),
                           num_intervals * interval)))

get_dynamic_weight(epoch, end_epochs) ==
    LET num_intervals == end_epochs \div interval
    IN  IF num_intervals = 0 THEN Raised("ZeroDivisionError")
        ELSE LET weight_increment == RatDivInt(RatSub(max_weight, start_weight), num_intervals)
             IN  IF epoch < interval THEN Returned(start_weight)
                 ELSE Returned(RatAdd(start_weight,
                                      RatScale(epoch \div interval, weight_increment)))

----------------------------------------------------------------------------
(* Networks and their parameters *)

Clamp(x, lo, hi) == IF x < lo THEN lo ELSE IF x > hi THEN hi ELSE x

\* One parameter pair of the loop of lines 199-200:
\* 0.001 * param_stud + 0.999 * param_teach, rounded to the nearest unit.
ema_swapped(param_stud, param_teach) == (999 * param_stud + param_teach + 500) \div 1000

ema(param_stud, param_teach) == (param_stud + 999 * param_teach + 500) \div 1000

\* zip(model.parameters(), teacher_model.parameters()) and the in-place copy_.
ema_update(stud, teach) ==
    [i \in DOMAIN teach |-> IF i <= Len(stud) THEN ema(stud[i], teach[i]) ELSE teach[i]]

\* optimizer.step() on a parameter vector whose gradients loss.backward() has
\* set: every parameter moves toward the optimum of the data, at most LrStep.
descend(params, opt) ==
    [i \in DOMAIN params |-> params[i] + Clamp(opt[i] - params[i], -LrStep, LrStep)]

\* optimizer.step(): the optimizer holds the parameters of the object it was
\* built from; loss.backward() sets gradients on the student of the invocation.
\* The teacher is in no optimizer (lines 285-286, 296-297).
optimizer_step_teacher_too(h, opt_obj, stud, teach, optm) ==
    [o \in DOMAIN h |->
        IF (o = opt_obj /\ o = stud) \/ o = teach THEN descend(h[o], optm) ELSE h[o]]

optimizer_step(h, opt_obj, stud, teach, optm) ==
    [o \in DOMAIN h |-> IF o = opt_obj /\ o = stud THEN descend(h[o], optm) ELSE h[o]]

----------------------------------------------------------------------------
(* train *)

StepNames == {"supervised-Pretraining", "SSL-reliable-st1", "SSL-reliable-st2"}

\* lines 178-184
select_weight_ignores_stage(step_name, ContrastiveWeights, epoch, end_epochs) ==
    IF ContrastiveWeights.num = 0
    THEN get_dynamic_weight(epoch, end_epochs)
    ELSE Returned(ContrastiveWeights)

select_weight(step_name, ContrastiveWeights, epoch, end_epochs) ==
    IF step_name = "supervised-Pretraining"
    THEN IF ContrastiveWeights.num = 0
         THEN get_dynamic_weight(epoch, end_epochs)
         ELSE Returned(ContrastiveWeights)
    ELSE Returned(Rat(1, 2))

\* line 129
epoch_number_zero_based(i) == i

epoch_number(i) == i + 1

\* line 232
is_save_epoch(epoch, save_interval) == epoch % save_interval = 0

\* lines 233-235: the path torch.save writes
save_path(fold_no, step_name, epoch) ==
    [fold_dir |-> fold_no, step_name |-> step_name, epoch |-> epoch]

\* save_loss appends one row to the file named at line 229
save_loss(files, name, row) ==
    IF name \in DOMAIN files
    THEN [files EXCEPT ![name] = Append(@, row)]
    ELSE (name :> <<row>>) @@ files

Raise(e) ==
    /\ exception' = e
    /\ tpc' = "raised"
    /\ pc' = IF pc = "harness" THEN pc ELSE "crashed"

Classes == 0..(NumClasses - 1)

\* Embedding_Queues(num_classes): one empty queue for each class
Embedding_Queues(num_classes) == [c \in 0..(num_classes - 1) |-> <<>>]

LastN(q, n) == IF Len(q) <= n THEN q ELSE SubSeq(q, Len(q) - n + 1, Len(q))

\* Embedding_Queues.enqueue: appends the embeddings of each class to the queue
\* of the class, then drops the oldest entries beyond the capacity
enqueue(queues, emb_list) ==
    [c \in DOMAIN queues |-> LastN(queues[c] \o emb_list[c], QueueCapacity)]

\* _get_patches: the number of patches (entries that are not None) of each
\* class in batch b of the loader.  The background is in every image; the
\* other classes are in some batches only.
get_patches(b) == [c \in Classes |-> IF c = 0 THEN 2 ELSE (b + c) % 2]

\* Network.forward: the patch embeddings while the attribute contrast is set,
\* the segmentation output otherwise
forward(flag) == IF flag THEN "embedding" ELSE "segmentation"

\* get_embeddings: the forward pass of net over the patches of each class that
\* are not None; `at` names the training step
get_embeddings(net, flag, patch_list, at) ==
    [c \in DOMAIN patch_list |->
        [i \in 1..patch_list[c] |-> [net |-> net, out |-> forward(flag), at |-> at, k |-> i]]]

\* lines 155, 159, 167, 61: <net>.module.contrast = value
set_contrast_skipped(flags, net, value) == flags

set_contrast(flags, net, value) == [flags EXCEPT ![net] = value]

\* line 162: the argument of embd_queues.enqueue
enqueued_list_student(student_embs, teacher_embs) == student_embs

enqueued_list(student_embs, teacher_embs) == teacher_embs

\* the training step the loop is in
Here == [step_name |-> call.step_name, fold |-> call.fold, epoch |-> c_epochs,
         batch |-> batch]

\* lines 128-129 with line 126 inside the loop: a new queue for every epoch
TrainEpochBegin_new_queue ==
    /\ tpc = "epoch"
    /\ range_i < call.end_epochs
    /\ c_epochs' = epoch_number(range_i)
    /\ range_i' = range_i + 1
    /\ batch' = 0
    /\ tpc' = "batch"
    /\ embd_queues' = Embedding_Queues(NumClasses)
    /\ log' = [log EXCEPT !.op = "epoch"]
    /\ UNCHANGED <<mainVars, netVars, optimum, fs, csv, call, PatchCL_weight,
                   student_emb_list, teacher_embedding_list, exception, harnessVars>>

\* line 128: the next value of range(start_epochs, end_epochs), line 129
TrainEpochBegin ==
    /\ tpc = "epoch"
    /\ range_i < call.end_epochs
    /\ c_epochs' = epoch_number(range_i)
    /\ range_i' = range_i + 1
    /\ batch' = 0
    /\ tpc' = "batch"
    /\ log' = [log EXCEPT !.op = "epoch"]
    /\ UNCHANGED <<mainVars, netVars, optimum, fs, csv, call, PatchCL_weight,
                   queueVars, exception, harnessVars>>

\* lines 139-156: the next batch, its patches, the student's embeddings
TrainStudentEmbeddings ==
    /\ tpc = "batch"
    /\ batch < call.train_loader
    /\ contrast' = set_contrast(contrast, model, TRUE)
    /\ student_emb_list' = get_embeddings(model, contrast'[model], get_patches(batch), Here)
    /\ tpc' = "teacher_emb"
    /\ log' = [log EXCEPT !.op = "student_emb"]
    /\ UNCHANGED <<mainVars, heap, model, teacher_model, optimum, fs, csv, call,
                   range_i, c_epochs, batch, PatchCL_weight, embd_queues,
                   teacher_embedding_list, exception, harnessVars>>

\* lines 158-160: the teacher's embeddings of the augmented patches
TrainTeacherEmbeddings ==
    /\ tpc = "teacher_emb"
    /\ contrast' = set_contrast(contrast, teacher_model, TRUE)
    /\ teacher_embedding_list'
         = get_embeddings(teacher_model, contrast'[teacher_model], get_patches(batch), Here)
    /\ tpc' = "enqueue"
    /\ log' = [log EXCEPT !.op = "teacher_emb"]
    /\ UNCHANGED <<mainVars, heap, model, teacher_model, optimum, fs, csv, call,
                   range_i, c_epochs, batch, PatchCL_weight, embd_queues,
                   student_emb_list, exception, harnessVars>>

\* line 162
TrainEnqueue ==
    /\ tpc = "enqueue"
    /\ embd_queues' = enqueue(embd_queues,
                              enqueued_list(student_emb_list, teacher_embedding_list))
    /\ tpc' = "loss"
    /\ log' = [log EXCEPT !.op = "enqueue", !.enqs = @ + 1]
    /\ UNCHANGED <<mainVars, netVars, optimum, fs, csv, call, range_i, c_epochs,
                   batch, PatchCL_weight, student_emb_list, teacher_embedding_list,
                   exception, harnessVars>>

\* lines 164-195: simple_PCGJCL over student_emb_list and embd_queues, the
\* supervised forward pass, the weighted loss, up to loss.backward()
TrainForward ==
    /\ tpc = "loss"
    /\ contrast' = set_contrast(contrast, model, FALSE)
    /\ LET w == select_weight(call.step_name, call.ContrastiveWeights,
                              c_epochs, call.end_epochs)
       IN  IF w.exc # ""
           THEN /\ Raise(w.exc)
                /\ log' = [log EXCEPT !.op = "raise", !.out = forward(contrast'[model])]
                /\ UNCHANGED <<fold, args, labeled_dataset, unlabeled_dataset,
                               reliable_dataset, remaining_dataset,
                               remaining_label_dataset, PatchCL_weight>>
           ELSE /\ PatchCL_weight' = w.val
                /\ tpc' = "optimizer"
                /\ log' = [log EXCEPT !.op = "forward", !.loss_weight = w.val,
                                      !.out = forward(contrast'[model])]
                /\ UNCHANGED <<mainVars, exception>>
    /\ UNCHANGED <<heap, model, teacher_model, optimum, fs, csv, call, range_i,
                   c_epochs, batch, queueVars, harnessVars>>

\* line 197
TrainOptimizerStep ==
    /\ tpc = "optimizer"
    /\ heap' = optimizer_step(heap, call.optimizer, model, teacher_model, optimum)
    /\ tpc' = "ema"
    /\ log' = [log EXCEPT !.op = "optimizer", !.steps = @ + 1,
                          !.stud = heap'[model], !.teach = heap[teacher_model]]
    /\ UNCHANGED <<mainVars, model, teacher_model, contrast, optimum, fs, csv, call,
                   range_i, c_epochs, batch, PatchCL_weight, queueVars, exception,
                   harnessVars>>

\* lines 199-200
TrainEMA ==
    /\ tpc = "ema"
    /\ heap' = [heap EXCEPT ![teacher_model] = ema_update(heap[model], @)]
    /\ batch' = batch + 1
    /\ tpc' = "batch"
    /\ log' = [log EXCEPT !.op = "ema", !.emas = @ + 1]
    /\ UNCHANGED <<mainVars, model, teacher_model, contrast, optimum, fs, csv, call,
                   range_i, c_epochs, PatchCL_weight, queueVars, exception,
                   harnessVars>>

\* lines 204-213: the epoch averages (the divisions by len(train_loader)), then
\* validate (lines 59-88: the flag, the batches, the division by total_samples)
TrainValidate ==
    /\ tpc = "batch"
    /\ batch = call.train_loader
    /\ IF call.train_loader = 0
       THEN /\ Raise("ZeroDivisionError")
            /\ log' = [log EXCEPT !.op = "raise"]
            /\ UNCHANGED <<fold, args, labeled_dataset, unlabeled_dataset,
                           reliable_dataset, remaining_dataset,
                           remaining_label_dataset, contrast>>
       ELSE /\ contrast' = set_contrast(contrast, model, FALSE)
            /\ IF call.val_loader = 0
               THEN /\ Raise("ZeroDivisionError")
                    /\ log' = [log EXCEPT !.op = "raise"]
                    /\ UNCHANGED <<fold, args, labeled_dataset, unlabeled_dataset,
                                   reliable_dataset, remaining_dataset,
                                   remaining_label_dataset>>
               ELSE /\ tpc' = "log"
                    /\ log' = [log EXCEPT !.op = "validate",
                                          !.val_out = forward(contrast'[model])]
                    /\ UNCHANGED <<mainVars, exception>>
    /\ UNCHANGED <<heap, model, teacher_model, optimum, fs, csv, call, range_i,
                   c_epochs, batch, PatchCL_weight, queueVars, harnessVars>>

\* lines 215-235: save_loss and the checkpoint
TrainLogSave ==
    /\ tpc = "log"
    /\ csv' = save_loss(csv, <<call.step_name, call.fold>>,
                        [epoch |-> c_epochs, PatchCL_weight |-> PatchCL_weight])
    /\ fs' = IF is_save_epoch(c_epochs, call.save_interval)
             THEN (save_path(call.fold, call.step_name, c_epochs) :> heap[model]) @@ fs
             ELSE fs
    /\ tpc' = "epoch"
    /\ log' = [log EXCEPT !.op = "log"]
    /\ UNCHANGED <<mainVars, netVars, optimum, call, range_i, c_epochs, batch,
                   PatchCL_weight, queueVars, exception, harnessVars>>

\* line 237: the loop is exhausted, train returns to its caller
after_train(p) ==
    CASE p = "stage1" -> "stage2"
      [] p = "stage4" -> "stage5"
      [] p = "stage6" -> "fold_end"
      [] OTHER -> p

TrainReturn ==
    /\ tpc = "epoch"
    /\ range_i >= call.end_epochs
    /\ tpc' = "returned"
    /\ pc' = after_train(pc)
    /\ log' = [log EXCEPT !.op = "return"]
    /\ UNCHANGED <<fold, args, labeled_dataset, unlabeled_dataset, reliable_dataset,
                   remaining_dataset, remaining_label_dataset, netVars, optimum, fs,
                   csv, call, range_i, c_epochs, batch, PatchCL_weight, queueVars,
                   exception, harnessVars>>

TrainNext ==
    \/ TrainEpochBegin
    \/ TrainStudentEmbeddings
    \/ TrainTeacherEmbeddings
    \/ TrainEnqueue
    \/ TrainForward
    \/ TrainOptimizerStep
    \/ TrainEMA
    \/ TrainValidate
    \/ TrainLogSave
    \/ TrainReturn

----------------------------------------------------------------------------
(* main *)

\* line 296: optimizer_pretrain is built once, from the parameters of the
\* network created at line 282 (object 1 of the heap)
optimizer_pretrain == 1

\* load_pretrained_model's paths (lines 240-241) carry no fold directory
NoFoldDir == -1

\* DataLoader(dataset, batch_size, drop_last=True): the samples it yields
loader_samples(dataset, batch_size) ==
    SubSeq(dataset, 1, (Len(dataset) \div batch_size) * batch_size)

\* len(DataLoader(..., drop_last=True)) for a dataset or sampler of n samples
loader_len(n, batch_size) == n \div batch_size

\* KFold(n_splits=k_folds).split: the size of the validation part of a fold
valid_size(n, fold_no) == (n \div k_folds) + (IF fold_no < n % k_folds THEN 1 ELSE 0)

\* lines 240-241
model_path(save_model_path, epoch) ==
    [fold_dir |-> save_model_path.fold_dir, step_name |-> save_model_path.step_name,
     epoch |-> epoch]

teacher_model_path(save_model_path, epoch) ==
    [fold_dir |-> save_model_path.fold_dir, step_name |-> save_model_path.step_name,
     epoch |-> epoch - TeacherLag]

\* lines 344, 387: f"{save_loss_model_path}/model_<stage>_"
save_model_path(step_name) == [fold_dir |-> NoFoldDir, step_name |-> step_name]

Range(q) == {q[i] : i \in DOMAIN q}

\* the subsequence of q of the elements in S
RECURSIVE Filter(_, _)
Filter(q, S) ==
    IF q = <<>> THEN <<>>
    ELSE IF Head(q) \in S THEN <<Head(q)>> \o Filter(Tail(q), S)
         ELSE Filter(Tail(q), S)

Crash(e) ==
    /\ exception' = e
    /\ pc' = "crashed"

NoQueues == <<>>        \* embd_queues while no invocation has bound it
NoList == <<>>          \* an embedding list not assigned yet

\* line 126: train binds embd_queues at entry; `previous` is the value the last
\* invocation left
embd_queues_kept(previous) ==
    IF previous = NoQueues THEN Embedding_Queues(NumClasses) ELSE previous

embd_queues_at_entry(previous) == Embedding_Queues(NumClasses)

\* The call of train at lines 320-341, 359-380, 403-424, and its line 126
CallTrain(start, end, name, loader, val) ==
    /\ call' = [start_epochs |-> start, end_epochs |-> end, step_name |-> name,
                fold |-> fold, train_loader |-> loader, val_loader |-> val,
                ContrastiveWeights |-> args.ContrastiveWeights,
                save_interval |-> args.save_interval, optimizer |-> optimizer_pretrain]
    /\ tpc' = "epoch"
    /\ range_i' = start
    /\ c_epochs' = 0
    /\ batch' = 0
    /\ PatchCL_weight' = NoWeight
    /\ embd_queues' = embd_queues_at_entry(embd_queues)
    /\ student_emb_list' = NoList
    /\ teacher_embedding_list' = NoList

\* lines 311-341: the next fold of kfold.split, its loaders, stage 1
FoldBegin ==
    /\ pc = "fold_begin"
    /\ fold < k_folds
    /\ IF labeled_dataset < k_folds
       THEN /\ Crash("ValueError")
            /\ log' = [log EXCEPT !.op = "raise"]
            /\ UNCHANGED trainVars
       ELSE /\ pc' = "stage1"
            /\ CallTrain(supervised_start_epoch, supervised_end_epoch,
                         "supervised-Pretraining",
                         loader_len(labeled_dataset - valid_size(labeled_dataset, fold),
                                    args.batch_size),
                         loader_len(valid_size(labeled_dataset, fold), args.batch_size))
            /\ log' = [log EXCEPT !.op = "call"]
            /\ UNCHANGED exception
    /\ UNCHANGED <<fold, args, labeled_dataset, unlabeled_dataset, reliable_dataset,
                   remaining_dataset, remaining_label_dataset, netVars, optimum, fs,
                   csv, harnessVars>>

\* load_pretrained_model (lines 239-251) and the assignment of its result to
\* model, teacher_model (lines 345, 388).  Both files are students that line 235
\* pickled after validate had cleared their contrast attribute (line 61).
LoadPretrainedModel(path, epoch, next) ==
    IF model_path(path, epoch) \notin DOMAIN fs
       \/ teacher_model_path(path, epoch) \notin DOMAIN fs
    THEN /\ Crash("FileNotFoundError")
         /\ log' = [log EXCEPT !.op = "raise"]
         /\ UNCHANGED netVars
    ELSE /\ heap' = heap \o <<fs[model_path(path, epoch)],
                               fs[teacher_model_path(path, epoch)]>>
         /\ model' = Len(heap) + 1
         /\ teacher_model' = Len(heap) + 2
         /\ contrast' = contrast \o <<FALSE, FALSE>>
         /\ pc' = next
         /\ log' = [log EXCEPT !.op = "load"]
         /\ UNCHANGED exception

\* lines 343-345
Stage2Load ==
    /\ pc = "stage2"
    /\ LoadPretrainedModel(save_model_path("supervised-Pretraining"),
                           supervised_end_epoch, "stage2_select")
    /\ UNCHANGED <<fold, args, labeled_dataset, unlabeled_dataset, reliable_dataset,
                   remaining_dataset, remaining_label_dataset, optimum, fs, csv,
                   trainVars, harnessVars>>

\* select_reliable: splits the samples its loader yields into the reliable ones
\* and the others
select_reliable(samples, reliable_ids) ==
    [reliable |-> Filter(samples, reliable_ids),
     remaining |-> Filter(samples, Range(samples) \ reliable_ids)]

\* lines 346-348, over the loader of line 305
Stage2Select ==
    /\ pc = "stage2_select"
    /\ \E ids \in SUBSET Range(unlabeled_dataset) :
          LET r == select_reliable(loader_samples(unlabeled_dataset, args.batch_size),
                                   ids)
          IN  /\ reliable_dataset' = r.reliable
              /\ remaining_dataset' = r.remaining
    /\ pc' = "stage3"
    /\ log' = [log EXCEPT !.op = "select"]
    /\ UNCHANGED <<fold, args, labeled_dataset, unlabeled_dataset,
                   remaining_label_dataset, netVars, optimum, fs, csv, trainVars,
                   exception, harnessVars>>

\* lines 350-353: train_dataset is bound nowhere in main nor in the module
Stage3Concat ==
    /\ pc = "stage3"
    /\ Crash("NameError")
    /\ log' = [log EXCEPT !.op = "raise"]
    /\ UNCHANGED <<fold, args, labeled_dataset, unlabeled_dataset, reliable_dataset,
                   remaining_dataset, remaining_label_dataset, netVars, optimum, fs,
                   csv, trainVars, harnessVars>>

\* Label: the dataset of the samples its loader yields, each with the mask the
\* model predicts for it
Label(samples) == samples

\* line 395
too_few_batches_lt1(n) == n < 1

too_few_batches(n) == n < 2

\* line 384
smaller_than_batch(n, batch_size) == n < batch_size

\* lines 382-385: the test of the size of remaining_dataset prints, nothing else
Stage5Check ==
    /\ pc = "stage5"
    /\ pc' = "stage5_load"
    /\ log' = [log EXCEPT !.op = "check",
                          !.stdout = IF smaller_than_batch(Len(remaining_dataset),
                                                           args.batch_size)
                                     THEN Append(@, "remaining_dataset < batch size")
                                     ELSE @]
    /\ UNCHANGED <<fold, args, labeled_dataset, unlabeled_dataset, reliable_dataset,
                   remaining_dataset, remaining_label_dataset, netVars, optimum, fs,
                   csv, trainVars, exception, harnessVars>>

\* lines 387-388
Stage5Load ==
    /\ pc = "stage5_load"
    /\ LoadPretrainedModel(save_model_path("SSL-reliable-st1"),
                           SSL_step1_end_epoch, "stage5_label")
    /\ UNCHANGED <<fold, args, labeled_dataset, unlabeled_dataset, reliable_dataset,
                   remaining_dataset, remaining_label_dataset, optimum, fs, csv,
                   trainVars, harnessVars>>

\* lines 389-397: the pseudo-labels of the remaining images, the two-batch guard
Stage5Label ==
    /\ pc = "stage5_label"
    /\ remaining_label_dataset'
         = Label(loader_samples(remaining_dataset, args.batch_size))
    /\ pc' = IF too_few_batches(loader_len(Len(remaining_label_dataset'),
                                           args.batch_size))
             THEN "returned"
             ELSE "stage6_call"
    /\ log' = [log EXCEPT !.op = "label",
                          !.stdout = IF pc' = "returned"
                                     THEN Append(@, "remaining_label_loader < 2")
                                     ELSE @]
    /\ UNCHANGED <<fold, args, labeled_dataset, unlabeled_dataset, reliable_dataset,
                   remaining_dataset, netVars, optimum, fs, csv, trainVars,
                   exception, harnessVars>>

\* lines 399-424
Stage6Call ==
    /\ pc = "stage6_call"
    /\ pc' = "stage6"
    /\ CallTrain(SSL_step2_start_epoch, SSL_step2_end_epoch, "SSL-reliable-st2",
                 loader_len(Len(remaining_label_dataset), args.batch_size),
                 call.val_loader)
    /\ log' = [log EXCEPT !.op = "call"]
    /\ UNCHANGED <<fold, args, labeled_dataset, unlabeled_dataset, reliable_dataset,
                   remaining_dataset, remaining_label_dataset, netVars, optimum, fs,
                   csv, exception, harnessVars>>

\* line 311 with the networks of lines 282-288 built again in the loop body
FoldNext_reinit ==
    /\ pc = "fold_end"
    /\ fold' = fold + 1
    /\ pc' = "fold_begin"
    /\ heap' = heap \o <<[i \in DOMAIN heap[1] |-> 0], [i \in DOMAIN heap[1] |-> 0]>>
    /\ model' = Len(heap) + 1
    /\ teacher_model' = Len(heap) + 2
    /\ contrast' = contrast \o <<FALSE, FALSE>>
    /\ log' = [log EXCEPT !.op = "next"]
    /\ UNCHANGED <<args, labeled_dataset, unlabeled_dataset, reliable_dataset,
                   remaining_dataset, remaining_label_dataset, optimum, fs,
                   csv, trainVars, exception, harnessVars>>

\* line 311: the loop takes the next fold of enumerate(kfold.split(...))
FoldNext ==
    /\ pc = "fold_end"
    /\ fold' = fold + 1
    /\ pc' = "fold_begin"
    /\ log' = [log EXCEPT !.op = "next"]
    /\ UNCHANGED <<args, labeled_dataset, unlabeled_dataset, reliable_dataset,
                   remaining_dataset, remaining_label_dataset, netVars, optimum, fs,
                   csv, trainVars, exception, harnessVars>>

\* lines 311, 426: kfold.split is exhausted
Finish ==
    /\ pc = "fold_begin"
    /\ fold = k_folds
    /\ pc' = "finished"
    /\ log' = [log EXCEPT !.op = "finish"]
    /\ UNCHANGED <<fold, args, labeled_dataset, unlabeled_dataset, reliable_dataset,
                   remaining_dataset, remaining_label_dataset, netVars, optimum, fs,
                   csv, trainVars, exception, harnessVars>>

----------------------------------------------------------------------------
(* Initial values shared by the specifications *)

ParamVector(c) == [i \in 1..NParams |-> c * i]

\* The optima drawn: the initial parameters (zero gradient), one above, one below
Optima == {ParamVector(0), ParamVector(3000), [i \in 1..NParams |-> -2000]}

NoCall == [start_epochs |-> 0, end_epochs |-> 0, step_name |-> "", fold |-> 0,
           train_loader |-> 0, val_loader |-> 0, ContrastiveWeights |-> Rat(0, 1),
           save_interval |-> 1, optimizer |-> 1]

NoLog == [op |-> "", loss_weight |-> NoWeight, steps |-> 0, emas |-> 0,
          stud |-> <<>>, teach |-> <<>>, enqs |-> 0, out |-> "", val_out |-> "",
          stdout |-> <<>>]

NoFiles == [p \in {} |-> <<>>]

ContrastiveWeightChoices == {Rat(0, 1), Rat(3, 10)}

MainIdle ==
    /\ fold = 0
    /\ args = [batch_size |-> 1, ContrastiveWeights |-> Rat(0, 1), save_interval |-> 1]
    /\ labeled_dataset = 0
    /\ unlabeled_dataset = <<>>
    /\ reliable_dataset = <<>>
    /\ remaining_dataset = <<>>
    /\ remaining_label_dataset = <<>>

TrainIdle ==
    /\ call = NoCall
    /\ tpc = "idle"
    /\ range_i = 0
    /\ c_epochs = 0
    /\ batch = 0
    /\ PatchCL_weight = NoWeight
    /\ embd_queues = NoQueues
    /\ student_emb_list = NoList
    /\ teacher_embedding_list = NoList

HarnessIdle ==
    /\ wq = [epoch |-> 0, end_epochs |-> 0]
    /\ wres = Raised("not called")

----------------------------------------------------------------------------
(* SpecTrain: one invocation of train, its arguments drawn from bounded sets *)

InitTrain ==
    /\ pc = "harness"
    /\ MainIdle
    /\ heap = <<ParamVector(0), ParamVector(0)>>
    /\ model = 1
    /\ teacher_model = 2
    /\ contrast = <<FALSE, FALSE>>
    /\ optimum \in Optima
    /\ fs = NoFiles
    /\ csv = NoFiles
    /\ \E s \in 0..1, e \in 0..MaxEndEpochs, n \in StepNames, f \in {0},
          b \in 0..MaxBatches, w \in ContrastiveWeightChoices,
          si \in 1..MaxSaveInterval :
          call = [start_epochs |-> s, end_epochs |-> e, step_name |-> n, fold |-> f,
                  train_loader |-> b, val_loader |-> 1, ContrastiveWeights |-> w,
                  save_interval |-> si, optimizer |-> 1]
    /\ tpc = "epoch"
    /\ range_i = call.start_epochs
    /\ c_epochs = 0
    /\ batch = 0
    /\ PatchCL_weight = NoWeight
    /\ embd_queues = embd_queues_at_entry(NoQueues)
    /\ student_emb_list = NoList
    /\ teacher_embedding_list = NoList
    /\ exception = ""
    /\ log = NoLog
    /\ HarnessIdle

SpecTrain == InitTrain /\ [][TrainNext]_vars

----------------------------------------------------------------------------
(* SpecWeight: get_dynamic_weight applied to arguments drawn from bounded sets *)

InitWeight ==
    /\ pc = "harness"
    /\ MainIdle
    /\ heap = <<ParamVector(0), ParamVector(0)>>
    /\ model = 1
    /\ teacher_model = 2
    /\ contrast = <<FALSE, FALSE>>
    /\ optimum = ParamVector(0)
    /\ fs = NoFiles
    /\ csv = NoFiles
    /\ TrainIdle
    /\ exception = ""
    /\ log = NoLog
    /\ wq \in [epoch : 0..MaxEpochArg, end_epochs : 0..MaxEpochArg]
    /\ wres = Raised("not called")

CallWeight ==
    /\ wres = Raised("not called")
    /\ wres' = get_dynamic_weight(wq.epoch, wq.end_epochs)
    /\ UNCHANGED <<mainVars, netVars, optimum, fs, csv, trainVars, exception, log, wq>>

SpecWeight == InitWeight /\ [][CallWeight]_vars

----------------------------------------------------------------------------
(* Spec: main, from the state that lines 262-309 construct *)

\* Checkpoints left at the paths load_pretrained_model reads by something other
\* than this run: train writes below fold/<fold> only
StaleParams == ParamVector(7000)

StaleFiles(names) ==
    {[p \in P |-> StaleParams] :
        P \in SUBSET {[fold_dir |-> NoFoldDir, step_name |-> n, epoch |-> e] :
                        n \in names,
                        e \in {supervised_end_epoch, supervised_end_epoch - TeacherLag}}}

Sample(n) == [i \in 1..n |-> i]

Init ==
    /\ pc = "fold_begin"
    /\ fold = 0
    /\ args \in [batch_size : 1..MaxBatchSize,
                 ContrastiveWeights : ContrastiveWeightChoices,
                 save_interval : 1..MaxSaveInterval]
    /\ labeled_dataset \in {k_folds - 1, k_folds, k_folds * MaxBatchSize}
    /\ unlabeled_dataset \in {Sample(n) : n \in {0, MaxUnlabeled - 1, MaxUnlabeled}}
    /\ reliable_dataset = <<>>
    /\ remaining_dataset = <<>>
    /\ remaining_label_dataset = <<>>
    /\ heap = <<ParamVector(0), ParamVector(0)>>
    /\ model = 1
    /\ teacher_model = 2
    /\ contrast = <<FALSE, FALSE>>
    /\ optimum = ParamVector(3000)
    /\ fs \in StaleFiles({"supervised-Pretraining"})
    /\ csv = NoFiles
    /\ TrainIdle
    /\ exception = ""
    /\ log = NoLog
    /\ HarnessIdle

Next ==
    \/ FoldBegin
    \/ TrainNext
    \/ Stage2Load
    \/ Stage2Select
    \/ Stage3Concat

Spec == Init /\ [][Next]_vars

----------------------------------------------------------------------------
(* SpecLateStages: the loop body from the call of train at line 359 on.        *)
(* Line 351 raises in every run of main, so no run reaches these lines; this   *)
(* specification enters them with the state lines 311-353 would leave if       *)
(* combined_loader had been built: the student and teacher that stage 2        *)
(* loaded, a remaining dataset, stage 4's train just called.                   *)

AllStale ==
    [p \in {[fold_dir |-> NoFoldDir, step_name |-> n, epoch |-> e] :
              n \in {"supervised-Pretraining", "SSL-reliable-st1"},
              e \in {supervised_end_epoch, supervised_end_epoch - TeacherLag}}
       |-> StaleParams]

InitLateStages ==
    /\ pc = "stage4"
    /\ fold \in {k_folds - 2, k_folds - 1}
    /\ args \in [batch_size : 1..MaxBatchSize,
                 ContrastiveWeights : {Rat(0, 1)},
                 save_interval : {1, MaxSaveInterval}]
    /\ labeled_dataset = k_folds * MaxBatchSize
    /\ unlabeled_dataset = Sample(MaxUnlabeled)
    /\ \E ids \in {1..n : n \in 0..MaxUnlabeled} :
          LET r == select_reliable(loader_samples(unlabeled_dataset, args.batch_size),
                                   Range(unlabeled_dataset) \ ids)
          IN  /\ reliable_dataset = r.reliable
              /\ remaining_dataset = r.remaining
    /\ remaining_label_dataset = <<>>
    /\ heap = <<ParamVector(3000), ParamVector(0), StaleParams, StaleParams>>
    /\ model = 3
    /\ teacher_model = 4
    /\ contrast = <<FALSE, TRUE, FALSE, FALSE>>
    /\ optimum = ParamVector(3000)
    /\ fs \in {NoFiles, AllStale}
    /\ csv = NoFiles
    /\ call = [start_epochs |-> SSL_step1_start_epoch,
               end_epochs |-> SSL_step1_end_epoch,
               step_name |-> "SSL-reliable-st1", fold |-> fold, train_loader |-> 1,
               val_loader |-> loader_len(valid_size(labeled_dataset, fold),
                                         args.batch_size),
               ContrastiveWeights |-> args.ContrastiveWeights,
               save_interval |-> args.save_interval, optimizer |-> optimizer_pretrain]
    /\ tpc = "epoch"
    /\ range_i = call.start_epochs
    /\ c_epochs = 0
    /\ batch = 0
    /\ PatchCL_weight = NoWeight
    /\ embd_queues = embd_queues_at_entry(NoQueues)
    /\ student_emb_list = NoList
    /\ teacher_embedding_list = NoList
    /\ exception = ""
    /\ log = NoLog
    /\ HarnessIdle

NextLateStages ==
    \/ TrainNext
    \/ Stage5Check
    \/ Stage5Load
    \/ Stage5Label
    \/ Stage6Call
    \/ FoldNext
    \/ FoldBegin
    \/ Stage2Load
    \/ Stage2Select
    \/ Stage3Concat
    \/ Finish

SpecLateStages == InitLateStages /\ [][NextLateStages]_vars

----------------------------------------------------------------------------
(* Claims *)

Teacher == heap[teacher_model]
Student == heap[model]

\* C1 as stated: the teacher's parameters are changed by the EMA update only;
\* no gradient step, checkpoint load or reassignment replaces or modifies them.
C1_OnlyEMAChangesTeacher ==
    [][(teacher_model' # teacher_model \/ heap'[teacher_model'] # heap[teacher_model])
          => log'.op = "ema"]_vars

\* C1 amended: the teacher's parameters are changed only by the EMA update that
\* follows an optimizer step and by load_pretrained_model, which replaces the
\* teacher by the checkpoint it reads; no gradient step modifies them.
C1_TeacherChangedByEMAOrLoad ==
    [][(teacher_model' # teacher_model \/ heap'[teacher_model'] # heap[teacher_model])
          => \/ log'.op = "ema" /\ log.op = "optimizer" /\ teacher_model' = teacher_model
             \/ log'.op = "load"]_vars

\* C1 witness: load_pretrained_model has replaced a teacher that EMA updates had
\* moved away from its initial copy of the student.
C1_Witness ==
    /\ log.op = "load"
    /\ log.emas > 0
    /\ teacher_model # 2
    /\ heap[2] # ParamVector(0)
    /\ Teacher # heap[2]

\* C2: once stage 1 of a fold has returned, main raises no exception in the
\* stages that follow it: it runs them in order to the end of stage 6 (or
\* returns at the two-batch guard).
C2_StagesRunToEnd == ~(pc = "crashed" /\ tpc = "returned")

FileRows(name, fold_no) ==
    IF <<name, fold_no>> \in DOMAIN csv THEN csv[<<name, fold_no>>] ELSE <<>>

Checkpoints(name, fold_no) ==
    {p \in DOMAIN fs : p.fold_dir = fold_no /\ p.step_name = name}

TrainOver == tpc \in {"returned", "raised"}

\* C3: a train invocation over a non-empty loader logs exactly
\* end_epochs - start_epochs rows and writes one checkpoint for each of its
\* epochs whose number is a multiple of save_interval (2 rows and 1 checkpoint
\* for supervised-Pretraining, 2 epochs, save_interval 2).
C3_RowsAndCheckpoints ==
    (pc = "harness" /\ TrainOver /\ call.train_loader > 0
        /\ call.start_epochs <= call.end_epochs)
    => /\ Len(FileRows(call.step_name, call.fold)) = call.end_epochs - call.start_epochs
       /\ Cardinality(Checkpoints(call.step_name, call.fold))
            = Cardinality({e \in (call.start_epochs + 1)..call.end_epochs :
                              e % call.save_interval = 0})

\* C4: with end_epochs = 100 the schedule returns 1/10 for every epoch < 10 and
\* 1/10 + (epoch div 10) * 9/100 for every epoch >= 10: 1/10 at 5, 19/100 at 15,
\* 91/100 at 95.
C4_ScheduleAt100 ==
    (wres # Raised("not called") /\ wq.end_epochs = 100)
    => /\ wres.exc = ""
       /\ wres.val.den > 0
       /\ wq.epoch < 10 => (wres.val.num = 1 /\ wres.val.den = 10)
       /\ wq.epoch >= 10 =>
            wres.val.num * 100 = (10 + 9 * (wq.epoch \div 10)) * wres.val.den
       /\ wq.epoch = 15 => (wres.val.num = 19 /\ wres.val.den = 100)
       /\ wq.epoch = 95 => (wres.val.num = 91 /\ wres.val.den = 100)

C4_Witness ==
    /\ wq = [epoch |-> 95, end_epochs |-> 100]
    /\ wres = Returned([num |-> 91, den |-> 100])

Dynamic == call.step_name = "supervised-Pretraining" /\ call.ContrastiveWeights.num = 0

Rows == FileRows(call.step_name, call.fold)

\* C5: in a supervised-Pretraining invocation without override the weight is
\* defined for every epoch of the loop, is 1/10 at first, never decreases,
\* changes only at multiples of 10 epochs and then by 9/10 / (end_epochs div 10),
\* never exceeds 1 and is 1 at the final epoch.
C5_ScheduleOverLoop ==
    (pc = "harness" /\ Dynamic /\ call.train_loader > 0)
    => /\ tpc # "raised"
       /\ log.op = "forward" =>
            /\ RatLeq(start_weight, PatchCL_weight)
            /\ RatLeq(PatchCL_weight, max_weight)
            /\ c_epochs < interval => PatchCL_weight = start_weight
            /\ c_epochs = call.end_epochs => PatchCL_weight = max_weight
       /\ \A i \in 1..(Len(Rows) - 1) :
            /\ RatLeq(Rows[i].PatchCL_weight, Rows[i + 1].PatchCL_weight)
            /\ Rows[i].PatchCL_weight # Rows[i + 1].PatchCL_weight
                 => /\ Rows[i + 1].epoch % interval = 0
                    /\ RatSub(Rows[i + 1].PatchCL_weight, Rows[i].PatchCL_weight)
                         = Rat(9, 10 * (call.end_epochs \div interval))

\* C6: the weight of total = supervised + weight * contrastive is, for stage
\* supervised-Pretraining, the override when it is nonzero and the schedule's
\* value when it is 0; for every other stage it is 1/2.
C6_WeightByStage ==
    log.op = "forward"
    => /\ log.loss_weight = PatchCL_weight
       /\ IF call.step_name = "supervised-Pretraining"
          THEN IF call.ContrastiveWeights.num # 0
               THEN log.loss_weight = call.ContrastiveWeights
               ELSE Returned(log.loss_weight)
                      = get_dynamic_weight(c_epochs, call.end_epochs)
          ELSE log.loss_weight.num = 1 /\ log.loss_weight.den = 2

C6_Witness ==
    /\ log.op = "forward"
    /\ call.step_name = "SSL-reliable-st1"
    /\ call.ContrastiveWeights = Rat(3, 10)
    /\ c_epochs = 12
    /\ log.loss_weight = Rat(1, 2)

\* C7: there is exactly one EMA update per optimizer step, after it; it sets
\* each teacher parameter to 0.001 * s + 0.999 * t (to the nearest unit), s the
\* paired student parameter after the step and t the teacher's before the
\* update; the update never increases |s - t| and decreases it while it exceeds
\* the rounding.
C7_EMAUpdate ==
    /\ log.steps = log.emas + (IF tpc = "ema" THEN 1 ELSE 0)
    /\ log.op = "optimizer" => (tpc = "ema" /\ Teacher = log.teach)
    /\ log.op = "ema" =>
         \A i \in 1..NParams :
            /\ 2 * Abs(1000 * Teacher[i] - (log.stud[i] + 999 * log.teach[i])) <= 1000
            /\ Student[i] = log.stud[i]
            /\ Abs(log.stud[i] - Teacher[i]) <= Abs(log.stud[i] - log.teach[i])
            /\ Abs(log.stud[i] - log.teach[i]) > 500
                 => Abs(log.stud[i] - Teacher[i]) < Abs(log.stud[i] - log.teach[i])

\* C7 witness: the student has stayed at the optimum for several steps and an
\* EMA update has moved the teacher toward it.
C7_Witness ==
    /\ log.op = "ema"
    /\ log.emas >= 6
    /\ Student = optimum
    /\ Teacher # log.teach
    /\ Teacher # Student

\* C8: at the end of stage 2 the reliable and remaining datasets partition the
\* unlabeled set: sizes add up to N, every sample is in exactly one of them.
C8_Partition ==
    pc = "stage3"
    => /\ Len(reliable_dataset) + Len(remaining_dataset) = Len(unlabeled_dataset)
       /\ Range(reliable_dataset) \cup Range(remaining_dataset)
            = Range(unlabeled_dataset)
       /\ Range(reliable_dataset) \cap Range(remaining_dataset) = {}

C10_TwoBatchGuard ==
    /\ (log.op = "label" /\ Len(remaining_label_dataset) < 2 * args.batch_size)
          => pc = "returned"
    /\ pc = "returned"
          => /\ ~ENABLED NextLateStages
             /\ call.step_name = "SSL-reliable-st1"
             /\ call.fold = fold
             /\ FileRows("SSL-reliable-st2", fold) = <<>>
    /\ pc \in {"stage6_call", "stage6"}
          => Len(remaining_label_dataset) >= 2 * args.batch_size
    /\ (pc = "stage6" /\ tpc # "idle")
          => /\ call.step_name = "SSL-reliable-st2"
             /\ call.train_loader >= 2
             /\ call.train_loader * args.batch_size <= Len(remaining_label_dataset)

\* C10 witness: the pseudo-labeled set fills one batch of two, not two batches,
\* and main has returned.
C10_Witness ==
    /\ pc = "returned"
    /\ args.batch_size = 2
    /\ Len(remaining_label_dataset) = 2

Warned(msg) == \E i \in DOMAIN log.stdout : log.stdout[i] = msg

InQueues == UNION {Range(embd_queues[c]) : c \in DOMAIN embd_queues}

\* C12: every training step makes exactly one enqueue; what it enqueues are the
\* teacher's embeddings of that step, never the student's; it follows the
\* teacher's embedding extraction and precedes the contrastive loss, which
\* therefore reads a queue that ends with the teacher's embeddings of the step.
C12_EnqueueOncePerStep ==
    /\ [](/\ tpc # "raised"
             => log.enqs = log.steps + (IF tpc \in {"loss", "optimizer"} THEN 1 ELSE 0)
          /\ \A e \in InQueues : e.net = teacher_model /\ e.net # model
          /\ log.op \in {"enqueue", "forward"}
             => \A c \in Classes :
                   teacher_embedding_list[c] # <<>>
                   => /\ embd_queues[c] # <<>>
                      /\ embd_queues[c][Len(embd_queues[c])]
                           = teacher_embedding_list[c][Len(teacher_embedding_list[c])]
                      /\ embd_queues[c][Len(embd_queues[c])].at = Here)
    /\ [][/\ log'.op = "enqueue" => log.op = "teacher_emb"
          /\ log'.op = "forward" => log.op = "enqueue"
          /\ log.op = "enqueue" => log'.op \in {"forward", "raise"}
          /\ embd_queues' # embd_queues => log'.op = "enqueue"]_vars

\* C12 witness: in the second batch of a later epoch the loss has been computed
\* over queues whose newest entries are the teacher's embeddings of this step.
C12_Witness ==
    /\ log.op = "forward"
    /\ c_epochs >= 3
    /\ batch = 1
    /\ Len(embd_queues[0]) = QueueCapacity
    /\ embd_queues[0][QueueCapacity].at = Here
    /\ embd_queues[0][QueueCapacity].net = teacher_model
    /\ student_emb_list[0] # <<>>

\* C13: the networks are carried over between folds: from the return of stage
\* 6's train to the call of stage 1's train in the next fold main neither
\* rebinds model or teacher_model nor changes a parameter, so stage 1 of the
\* next fold gets the pair stage 5 loaded and stage 6 trained, never the
\* networks of lines 282-283 again nor new ones.
C13_CarriedOverFolds ==
    /\ [](pc = "stage1"
          => /\ call.step_name = "supervised-Pretraining"
             /\ model = Len(heap) - 1
             /\ teacher_model = Len(heap)
             /\ model > 4)
    /\ [][(pc \in {"fold_end", "fold_begin"} \/ (pc = "stage6" /\ pc' # "stage6"))
             => UNCHANGED <<heap, model, teacher_model>>]_vars

\* C13 witness: stage 1 of the fold after the one entered trains the pair that
\* stage 5 loaded and stage 6 was given.
C13_Witness ==
    /\ pc = "stage1"
    /\ fold = k_folds - 1
    /\ tpc = "ema"
    /\ log.steps > SSL_step1_end_epoch + SSL_step2_end_epoch
    /\ model = 5
    /\ teacher_model = 6
    /\ Len(heap) = 6
    /\ heap[5] = StaleParams

\* The training steps of this invocation that have made their enqueue
StepsEnqueued ==
    IF c_epochs = 0 THEN 0
    ELSE (c_epochs - call.start_epochs - 1) * call.train_loader + batch
         + (IF tpc \in {"loss", "optimizer", "ema"} THEN 1 ELSE 0)

\* The newest k (all, when there are fewer) of the embeddings of class c that
\* the training steps 1..n of this invocation handed to enqueue, oldest first
RECURSIVE NewestEnqueued(_, _, _)
NewestEnqueued(c, n, k) ==
    IF n = 0 \/ k <= 0 THEN <<>>
    ELSE LET at == [step_name |-> call.step_name, fold |-> call.fold,
                    epoch |-> call.start_epochs + 1 + ((n - 1) \div call.train_loader),
                    batch |-> (n - 1) % call.train_loader]
             here == get_embeddings(teacher_model, TRUE, get_patches(at.batch), at)[c]
         IN  IF Len(here) >= k
             THEN SubSeq(here, Len(here) - k + 1, Len(here))
             ELSE NewestEnqueued(c, n - 1, k - Len(here)) \o here

IsSuffix(q, all) ==
    /\ Len(q) <= Len(all)
    /\ \A i \in 1..Len(q) : q[i] = all[Len(all) - Len(q) + i]

CheckpointTags == {p.epoch : p \in Checkpoints(call.step_name, call.fold)}

\* C15 as stated: the epoch numbers a train invocation uses for the weight
\* schedule, the save_interval test and the checkpoint tag are exactly the
\* integers of [start_epochs, end_epochs), each once, in increasing order.
C15_EpochsHalfOpen ==
    pc = "harness"
    => /\ tpc \in {"teacher_emb", "enqueue", "loss", "optimizer", "ema", "log"}
            => c_epochs \in call.start_epochs..(call.end_epochs - 1)
       /\ \A i \in 1..Len(Rows) : Rows[i].epoch = call.start_epochs + i - 1
       /\ CheckpointTags
            \subseteq {e \in call.start_epochs..(call.end_epochs - 1) :
                          e % call.save_interval = 0}

\* C15 amended: the epoch numbers a train invocation uses for the weight
\* schedule, the save_interval test and the checkpoint tag are the integers
\* start_epochs + 1 .. end_epochs, in increasing order, one for each epoch the
\* loop runs: all of them, each once, when the invocation returns.
C15_EpochsShiftedByOne ==
    pc = "harness"
    => /\ tpc \in {"teacher_emb", "enqueue", "loss", "optimizer", "ema", "log"}
            => /\ c_epochs \in (call.start_epochs + 1)..call.end_epochs
               /\ c_epochs = call.start_epochs + Len(Rows) + 1
       /\ (log.op = "forward" /\ Dynamic)
            => Returned(PatchCL_weight) = get_dynamic_weight(c_epochs, call.end_epochs)
       /\ \A i \in 1..Len(Rows) : Rows[i].epoch = call.start_epochs + i
       /\ CheckpointTags
            = {e \in (call.start_epochs + 1)..(call.start_epochs + Len(Rows)) :
                  e % call.save_interval = 0}
       /\ (tpc = "returned" /\ call.start_epochs <= call.end_epochs)
            => Len(Rows) = call.end_epochs - call.start_epochs

\* C15 witness: an invocation over epochs 2..12 has returned; its last
\* checkpoint carries the tag end_epochs.
C15_Witness ==
    /\ pc = "harness"
    /\ tpc = "returned"
    /\ call.start_epochs = 1
    /\ call.end_epochs = 12
    /\ call.save_interval = 3
    /\ Len(Rows) = 11
    /\ CheckpointTags = {3, 6, 9, 12}

Extracted(emb_list) == UNION {Range(emb_list[c]) : c \in DOMAIN emb_list}

\* C16: the contrast attribute of a network is True when get_embeddings runs on
\* it and False when the student's supervised forward pass and when a
\* validation forward pass runs: every extraction returns embeddings, the
\* supervised and the validation passes return the segmentation output.
C16_ContrastFlag ==
    /\ \A e \in Extracted(student_emb_list) \cup Extracted(teacher_embedding_list)
                  \cup InQueues : e.out = "embedding"
    /\ log.op = "student_emb" => (contrast[model] /\ Extracted(student_emb_list) # {})
    /\ log.op = "teacher_emb"
          => (contrast[teacher_model] /\ Extracted(teacher_embedding_list) # {})
    /\ log.op = "forward" => (~contrast[model] /\ log.out = "segmentation")
    /\ log.op = "validate" => (~contrast[model] /\ log.val_out = "segmentation")
    /\ log.out \in {"", "segmentation"}
    /\ log.val_out \in {"", "segmentation"}

\* C16 witness: validate has run after steps that set the student's flag for
\* the extraction and cleared it for the supervised pass; the teacher's flag,
\* which nothing clears, is still set.
C16_Witness ==
    /\ log.op = "validate"
    /\ log.emas >= 2
    /\ contrast[teacher_model]
    /\ ~contrast[model]
    /\ log.out = "segmentation"
    /\ log.val_out = "segmentation"
    /\ \E e \in Extracted(student_emb_list) : e.net = model /\ e.out = "embedding"

\* The two files load_pretrained_model reads for a stage that ended at `epoch`
ReadByLoad(step_name, epoch) ==
    {model_path(save_model_path(step_name), epoch),
     teacher_model_path(save_model_path(step_name), epoch)}

\* C17: the files load_pretrained_model reads in stage 2 and in stage 5 were
\* written in this run by the train call of the preceding stage of the same
\* fold, whatever the fold and save_interval: no load fails for a missing file.
C17_LoadReadsWhatTrainWrote ==
    /\ pc = "stage2"
          => ReadByLoad("supervised-Pretraining", supervised_end_epoch)
                \subseteq Checkpoints("supervised-Pretraining", fold)
    /\ pc = "stage5_load"
          => ReadByLoad("SSL-reliable-st1", SSL_step1_end_epoch)
                \subseteq Checkpoints("SSL-reliable-st1", fold)
    /\ exception # "FileNotFoundError"

C19_FreshQueuePerInvocation ==
    /\ [](/\ log.op = "call" => \A c \in Classes : embd_queues[c] = <<>>
          /\ tpc # "idle"
             => \A e \in InQueues : /\ e.at.step_name = call.step_name
                                    /\ e.at.fold = call.fold
          /\ (log.op = "epoch" /\ call.train_loader > 0
                 /\ c_epochs > call.start_epochs + 1)
             => \E e \in Range(embd_queues[0]) : e.at.epoch = c_epochs - 1)
    /\ [][log'.op = "epoch" => embd_queues' = embd_queues]_vars

\* C19 witness: stage 6 is filling its own queue after stage 4 had filled one.
C19_Witness ==
    /\ pc = "stage6"
    /\ log.op = "enqueue"
    /\ c_epochs = 1
    /\ batch = 0
    /\ log.enqs > SSL_step1_end_epoch
    /\ Len(embd_queues[0]) = 2
    /\ embd_queues[0][1].at.step_name = "SSL-reliable-st2"
    /\ FileRows("SSL-reliable-st1", fold) # <<>>

\* C20: the averages of an epoch are always defined: every training loader
\* handed to train and every validation loader handed to validate yields at
\* least one batch, no division by the number of batches or of validated
\* samples is a division by zero, and the contrastive weight is assigned
\* before it is logged.
C20_AveragesDefined ==
    /\ tpc # "idle" => (call.train_loader >= 1 /\ call.val_loader >= 1)
    /\ exception # "ZeroDivisionError"
    /\ log.op = "log" => PatchCL_weight # NoWeight

====
